---- MODULE Spec2Model ----
(***************************************************************************)
(* Model of the analysis core of market_algo_azure (src/utils.py) and of    *)
(* the presentation code that calls it (src/visualizations.py,             *)
(* src/analysis.py): sequential pattern mining, profile aggregation,       *)
(* volatility estimation, the barcode table and the date-window paths.     *)
(*                                                                         *)
(* Numbers that the program keeps as floats are modelled as exact          *)
(* rationals <<numerator, denominator>> in lowest terms with a positive    *)
(* denominator; a missing float (NaN) is <<0, 0>>.  A standard deviation   *)
(* is kept as its square.  The specifications share the variables:         *)
(* SpecMine (pattern mining), SpecProfile (aggregation of a table),        *)
(* SpecKey (the group keys of one timestamp), SpecAtr (rolling volatility  *)
(* and its categories), SpecBarcode (barcode table), SpecFrame (the        *)
(* caller's table across core operations), SpecRepeat (a repeated          *)
(* aggregation), SpecPaths (the paths to the derived columns) and          *)
(* SpecSession (connection, data loading and the loading buttons;          *)
(* SpecSessionLive adds weak fairness of the script run).                  *)
(***************************************************************************)
EXTENDS Integers, Sequences, FiniteSets, TLC

VARIABLES
    series,          \* get_sequential_patterns: the series argument
    pattern_length,  \* get_sequential_patterns: the pattern_length argument
    mine,            \* outcome of the last get_sequential_patterns call
    df,              \* the caller's table (data_dict[selected_timeframe])
    profile_type,    \* prepare_profile_data: the profile_type argument
    filter_params,   \* prepare_profile_data: the filter_params argument
    prof,            \* outcome of the last prepare_profile_data call
    stamp,           \* a timestamp whose group keys are computed
    keys,            \* the group keys computed for stamp
    bars,            \* calculate_atr: the df argument
    atr_period,      \* calculate_atr: the period argument
    atr,             \* outcome of calculate_atr followed by categorize_atr
    ref_date,        \* display_barcode_table: the date argument
    barcode,         \* the profiles list built by display_barcode_table
    calls,           \* number of prepare_profile_data calls made so far
    prev,            \* outcome of the call before the last one
    last,            \* name of the last core operation run on df
    derived,         \* the derived table a presentation path hands on
    session_state,   \* st.session_state
    event            \* what the last user event and script run did

vars == <<series, pattern_length, mine, df, profile_type, filter_params, prof,
          stamp, keys, bars, atr_period, atr, ref_date, barcode, calls, prev, last,
          derived, session_state, event>>

mineVars == <<series, pattern_length, mine>>
profVars == <<df, profile_type, filter_params, prof>>
keyVars == <<stamp, keys>>
atrVars == <<bars, atr_period, atr>>
barVars == <<ref_date, barcode>>
callVars == <<calls, prev, last>>
sessVars == <<session_state, event>>

\* a missing float; every other float is <<n, d>> with d > 0 in lowest terms
NaN == <<0, 0>>
IsNaN(r) == r[2] = 0

Max(a, b) == IF a >= b THEN a ELSE b
Min(a, b) == IF a <= b THEN a ELSE b

(***************************************************************************)
(* Exact arithmetic on floats                                              *)
(***************************************************************************)

Abs(x) == IF x < 0 THEN 0 - x ELSE x

RECURSIVE GCD(_, _)
GCD(a, b) == IF b = 0 THEN a ELSE GCD(b, a % b)

\* n / d for d # 0, in lowest terms with a positive denominator
Rat(n, d) ==
    LET g == GCD(Abs(n), Abs(d))
        sgn == IF d < 0 THEN 0 - 1 ELSE 1
    IN <<sgn * (n \div g), sgn * (d \div g)>>

Int2Rat(n) == <<n, 1>>

\* float arithmetic: a missing operand makes the result missing
RAdd(a, b) == IF IsNaN(a) \/ IsNaN(b) THEN NaN ELSE Rat(a[1] * b[2] + b[1] * a[2], a[2] * b[2])
RSub(a, b) == IF IsNaN(a) \/ IsNaN(b) THEN NaN ELSE Rat(a[1] * b[2] - b[1] * a[2], a[2] * b[2])
RMul(a, b) == IF IsNaN(a) \/ IsNaN(b) THEN NaN ELSE Rat(a[1] * b[1], a[2] * b[2])
\* a / b; 0 / 0 is missing (the only division by zero the program can reach)
RDiv(a, b) ==
    IF IsNaN(a) \/ IsNaN(b) \/ b[1] = 0 THEN NaN ELSE Rat(a[1] * b[2], a[2] * b[1])
\* comparisons with a missing operand are false
RLe(a, b) == ~IsNaN(a) /\ ~IsNaN(b) /\ a[1] * b[2] <= b[1] * a[2]
RLt(a, b) == ~IsNaN(a) /\ ~IsNaN(b) /\ a[1] * b[2] < b[1] * a[2]

RECURSIVE RSum(_)
RSum(s) == IF Len(s) = 0 THEN Int2Rat(0) ELSE RAdd(Head(s), RSum(Tail(s)))

(***************************************************************************)
(* Calendar fields of a pandas Timestamp                                   *)
(***************************************************************************)

\* a timestamp; None (an absent date) is the record with year 0
Ts(y, m, d, hh, mm) == [year |-> y, month |-> m, day |-> d, hour |-> hh, minute |-> mm]
None == Ts(0, 0, 0, 0, 0)
IsNone(t) == t.year = 0

IsLeap(y) == (y % 4 = 0 /\ y % 100 # 0) \/ y % 400 = 0

DaysInMonth(y, m) ==
    IF m = 2 THEN (IF IsLeap(y) THEN 29 ELSE 28)
    ELSE IF m \in {4, 6, 9, 11} THEN 30 ELSE 31

RECURSIVE DaysBeforeMonth(_, _)
DaysBeforeMonth(y, m) ==
    IF m <= 1 THEN 0 ELSE DaysBeforeMonth(y, m - 1) + DaysInMonth(y, m - 1)

\* Timestamp.dayofyear
DayOfYear(t) == DaysBeforeMonth(t.year, t.month) + t.day

\* proleptic Gregorian ordinal, 0001-01-01 is day 1
Ordinal(t) ==
    LET y == t.year - 1
    IN 365 * y + (y \div 4) - (y \div 100) + (y \div 400) + DayOfYear(t)

\* Timestamp.dayofweek: Monday = 0 .. Sunday = 6
DayOfWeek(t) == (Ordinal(t) + 6) % 7

\* number of ISO weeks of a year: 53 when 1 January is a Thursday, or a
\* Wednesday in a leap year
IsoWeeksInYear(y) ==
    LET jan1 == DayOfWeek(Ts(y, 1, 1, 0, 0))
    IN IF jan1 = 3 \/ (jan1 = 2 /\ IsLeap(y)) THEN 53 ELSE 52

IsoWeek_NoWrap(t) == (DayOfYear(t) - (DayOfWeek(t) + 1) + 10) \div 7

\* Timestamp.isocalendar().week
IsoWeek(t) ==
    LET w == (DayOfYear(t) - (DayOfWeek(t) + 1) + 10) \div 7
    IN IF w < 1 THEN IsoWeeksInYear(t.year - 1)
       ELSE IF w > IsoWeeksInYear(t.year) THEN 1
       ELSE w

\* Timestamp.quarter
Quarter(t) == ((t.month - 1) \div 3) + 1

\* order of timestamps (df['date'] >= start_date, df['date'] <= end_date)
TsLe(a, b) ==
    <<Ordinal(a), a.hour * 60 + a.minute>> = <<Ordinal(b), b.hour * 60 + b.minute>>
    \/ Ordinal(a) < Ordinal(b)
    \/ (Ordinal(a) = Ordinal(b) /\ a.hour * 60 + a.minute < b.hour * 60 + b.minute)

(***************************************************************************)
(* Sequential pattern mining                                               *)
(***************************************************************************)

MaxLen == 7
MaxK == 4

\* is_green columns hold booleans, atr_category columns hold 1.0/2.0/3.0/nan
BoolVals == {"True", "False"}
CatVals == {"1.0", "2.0", "nan"}

SeqsUpTo(S, n) == UNION {[1..m -> S] : m \in 0..n}

SeriesInputs == SeqsUpTo(BoolVals, MaxLen) \cup SeqsUpTo(CatVals, MaxLen)
PatternLengths == (0 - 1)..MaxK

\* Python slice bound: negative counts from the end, then clipped to 0..len
ClipIndex(x, len) == IF x < 0 THEN Max(0, x + len) ELSE Min(x, len)

\* series.iloc[start:stop]
ILocSlice(s, start, stop) ==
    SubSeq(s, ClipIndex(start, Len(s)) + 1, ClipIndex(stop, Len(s)))

\* len(range(n))
RangeLen(n) == IF n > 0 THEN n ELSE 0

NumWindows_OffByOne(s, k) == RangeLen(Len(s) - k)
NumWindows_FullRange(s, k) == RangeLen(Len(s))

\* for i in range(len(series) - pattern_length + 1)
NumWindows(s, k) == RangeLen(Len(s) - k + 1)

\* tuple(series.iloc[i:i+pattern_length]), i counted from 0
Window(s, k, i) == ILocSlice(s, i, i + k)

\* patterns: the list of windows in scan order
Patterns(s, k) == [j \in 1..NumWindows(s, k) |-> Window(s, k, j - 1)]

HasNaN(p) == \E j \in 1..Len(p) : p[j] = "nan"

\* Equality of two dict keys built from different windows: every window holds
\* freshly boxed floats, and nan compares unequal to every other nan object.
KeyEq(p, q) == p = q /\ ~HasNaN(p)

RECURSIVE CountFrom(_, _, _)
\* the counting loop: acc is pattern_counts in insertion order; "first" is the
\* index (from 0) of the window that inserted the key
CountFrom(pats, j, acc) ==
    IF j > Len(pats) THEN acc
    ELSE LET p == pats[j]
             hit == {e \in 1..Len(acc) : KeyEq(acc[e].pattern, p)}
         IN IF hit # {}
            THEN CountFrom(pats, j + 1,
                     [e \in 1..Len(acc) |->
                         IF e \in hit
                         THEN [acc[e] EXCEPT !.count = acc[e].count + 1]
                         ELSE acc[e]])
            ELSE CountFrom(pats, j + 1,
                     Append(acc, [pattern |-> p, count |-> 1, first |-> j - 1]))

PatternCounts(s, k) == CountFrom(Patterns(s, k), 1, <<>>)

MaxCount(items) ==
    IF Len(items) = 0 THEN 0
    ELSE CHOOSE c \in {items[e].count : e \in 1..Len(items)} :
             \A e \in 1..Len(items) : items[e].count <= c

RECURSIVE SelectFrom(_, _)
SelectFrom(items, c) ==
    IF c < 1 THEN <<>>
    ELSE SelectSeq(items, LAMBDA x : x.count = c) \o SelectFrom(items, c - 1)

RECURSIVE SelectUpTo(_, _, _)
SelectUpTo(items, c, top) ==
    IF c > top THEN <<>>
    ELSE SelectSeq(items, LAMBDA x : x.count = c) \o SelectUpTo(items, c + 1, top)

RECURSIVE ReverseSeq(_)
ReverseSeq(s) == IF Len(s) = 0 THEN <<>> ELSE Append(ReverseSeq(Tail(s)), Head(s))

SortByCountDesc_Reversed(items) == ReverseSeq(SelectUpTo(items, 1, MaxCount(items)))

\* sorted(pattern_counts.items(), key=lambda x: x[1], reverse=True):
\* a stable sort, equal counts keep their dict (insertion) order
SortByCountDesc(items) == SelectFrom(items, MaxCount(items))

get_sequential_patterns(s, k) ==
    [status |-> "returned",
     windows |-> NumWindows(s, k),
     patterns |-> SortByCountDesc(PatternCounts(s, k))]

NotCalled == [status |-> "idle", windows |-> 0, patterns |-> <<>>]

MineCall ==
    /\ mine.status = "idle"
    /\ mine' = get_sequential_patterns(series, pattern_length)
    /\ UNCHANGED <<series, pattern_length>>
    /\ UNCHANGED <<profVars, keyVars, atrVars, barVars, callVars, derived, sessVars>>

(***************************************************************************)
(* Return annotation, ATR and ATR categories                               *)
(***************************************************************************)

DropNaN(s) == SelectSeq(s, LAMBDA x : ~IsNaN(x))

\* Series.mean(): the mean of the non-missing values, missing when there are none
Mean(s) ==
    LET c == DropNaN(s)
    IN IF Len(c) = 0 THEN NaN ELSE RDiv(RSum(c), Int2Rat(Len(c)))

IsGreen_OrEqual(r) == r.close >= r.open

\* df['close'] > df['open']
IsGreen(r) == r.close > r.open

\* df['close'].pct_change() * 100 at row i (from 1): missing for the first row
PctReturn(d, i) ==
    IF i = 1 THEN NaN
    ELSE RMul(RSub(RDiv(Int2Rat(d[i].close), Int2Rat(d[i - 1].close)), Int2Rat(1)),
              Int2Rat(100))

calculate_returns(d) ==
    [i \in 1..Len(d) |->
        [date |-> d[i].date, open |-> d[i].open, high |-> d[i].high,
         low |-> d[i].low, close |-> d[i].close,
         return |-> PctReturn(d, i), is_green |-> IsGreen(d[i])]]

Max3(a, b, c) == Max(Max(a, b), c)

\* tr at row i: np.maximum propagates the missing previous close of row 1
TrueRange(d, i) ==
    IF i = 1 THEN NaN
    ELSE Int2Rat(Max3(Abs(d[i].high - d[i].low),
                      Abs(d[i].high - d[i - 1].close),
                      Abs(d[i].low - d[i - 1].close)))

RollingMean_Partial(tr, period, i) == Mean(SubSeq(tr, Max(1, i - period + 1), i))

\* pd.Series(tr).rolling(window=period).mean(): missing until the trailing
\* window holds `period` non-missing values
RollingMean(tr, period, i) ==
    LET w == SubSeq(tr, Max(1, i - period + 1), i)
    IN IF Len(DropNaN(w)) < period THEN NaN ELSE Mean(w)

calculate_atr(d, period) ==
    LET tr == [i \in 1..Len(d) |-> TrueRange(d, i)]
    IN [i \in 1..Len(d) |-> RollingMean(tr, period, i)]

RECURSIVE InsertSorted(_, _)
InsertSorted(s, x) ==
    IF Len(s) = 0 THEN <<x>>
    ELSE IF RLe(x, Head(s)) THEN <<x>> \o s
    ELSE <<Head(s)>> \o InsertSorted(Tail(s), x)

RECURSIVE SortRats(_)
SortRats(s) == IF Len(s) = 0 THEN <<>> ELSE InsertSorted(SortRats(Tail(s)), Head(s))

\* np.percentile(values, pct) with linear interpolation, values non-empty
Percentile(values, pct) ==
    LET a == SortRats(values)
        pos == Rat((Len(a) - 1) * pct, 100)
        lo == pos[1] \div pos[2]
        frac == RSub(pos, Int2Rat(lo))
    IN IF lo + 1 >= Len(a) THEN a[lo + 1]
       ELSE RAdd(a[lo + 1], RMul(frac, RSub(a[lo + 2], a[lo + 1])))

LowPct == 33
HighPct == 67

categorize_atr_LowWins(atr_values) ==
    LET clean == DropNaN(atr_values)
        low_threshold == Percentile(clean, LowPct)
        high_threshold == Percentile(clean, HighPct)
    IN IF Len(clean) = 0 THEN [i \in 1..Len(atr_values) |-> NaN]
       ELSE [i \in 1..Len(atr_values) |->
                IF IsNaN(atr_values[i]) THEN NaN
                ELSE IF RLe(atr_values[i], low_threshold) THEN Int2Rat(1)
                ELSE IF RLe(high_threshold, atr_values[i]) THEN Int2Rat(3)
                ELSE Int2Rat(2)]

\* the three masked assignments, in order: 2, then 1 where <= low, then 3
\* where >= high, then missing where the value is missing
categorize_atr(atr_values) ==
    LET clean == DropNaN(atr_values)
        low_threshold == Percentile(clean, LowPct)
        high_threshold == Percentile(clean, HighPct)
    IN IF Len(clean) = 0 THEN [i \in 1..Len(atr_values) |-> NaN]
       ELSE [i \in 1..Len(atr_values) |->
                IF IsNaN(atr_values[i]) THEN NaN
                ELSE IF RLe(high_threshold, atr_values[i]) THEN Int2Rat(3)
                ELSE IF RLe(atr_values[i], low_threshold) THEN Int2Rat(1)
                ELSE Int2Rat(2)]

(***************************************************************************)
(* Date-range filter                                                       *)
(***************************************************************************)

\* filter_params: given = FALSE is filter_params=None
NoFilter == [given |-> FALSE, start_date |-> None, end_date |-> None]

InRange(t, start_date, end_date) ==
    /\ (IsNone(start_date) \/ TsLe(start_date, t))
    /\ (IsNone(end_date) \/ TsLe(t, end_date))

filter_data_by_timeframe(d, start_date, end_date) ==
    SelectSeq(d, LAMBDA r : InRange(r.date, start_date, end_date))

(***************************************************************************)
(* Group keys                                                              *)
(***************************************************************************)

ProfileKinds == {"decennial", "presidential", "quarter", "month",
                 "week", "week_of_month", "day", "session"}

\* np.ceil(day / 7).astype(int)
WeekOfMonth(t) == (t.day + 6) \div 7

determine_session_Inclusive(t) ==
    LET time_val == t.hour * 60 + t.minute
    IN IF time_val < 9 * 60 + 30 THEN 0
       ELSE IF time_val <= 16 * 60 THEN 1
       ELSE 2

\* determine_session
determine_session(t) ==
    LET time_val == t.hour * 60 + t.minute
    IN IF time_val < 9 * 60 + 30 THEN 0
       ELSE IF time_val < 16 * 60 THEN 1
       ELSE 2

\* the group column of the seven calendar kinds
GroupKey(kind, t) ==
    CASE kind = "decennial" -> t.year % 10
      [] kind = "presidential" -> ((t.year - 1) % 4) + 1
      [] kind = "quarter" -> Quarter(t)
      [] kind = "month" -> t.month
      [] kind = "week" -> IsoWeek(t)
      [] kind = "week_of_month" -> WeekOfMonth(t)
      [] kind = "day" -> DayOfWeek(t) + 1

\* df['date'].iloc[0].time() != datetime.min.time()  (the loaders never
\* produce a 'time' column)
HasTimeData(d) == d[1].date.hour # 0 \/ d[1].date.minute # 0

\* the session group column of a non-empty table
SessionKey(d, t) == IF HasTimeData(d) THEN determine_session(t) ELSE 1

\* the group value of the row dated t in table d
RowKey(d, kind, t) ==
    IF kind = "session" THEN SessionKey(d, t) ELSE GroupKey(kind, t)

\* df['group'] = ...
WithGroup(d, kind) ==
    [i \in 1..Len(d) |->
        [date |-> d[i].date, open |-> d[i].open, high |-> d[i].high,
         low |-> d[i].low, close |-> d[i].close, return |-> d[i].return,
         is_green |-> d[i].is_green, atr |-> d[i].atr,
         atr_category |-> d[i].atr_category,
         group |-> RowKey(d, kind, d[i].date)]]

Grouped_KeepWeekends(d, kind) == WithGroup(d, kind)

\* the table after the profile-specific branch; the day branch drops weekends
Grouped(d, kind) ==
    IF kind = "day"
    THEN SelectSeq(WithGroup(d, kind), LAMBDA r : r.group <= 5)
    ELSE WithGroup(d, kind)

(***************************************************************************)
(* Profile aggregation                                                     *)
(***************************************************************************)

RECURSIVE SortedSeq(_)
\* the members of a finite set of integers in ascending order
SortedSeq(S) ==
    IF S = {} THEN <<>>
    ELSE LET m == CHOOSE x \in S : \A y \in S : x <= y
         IN <<m>> \o SortedSeq(S \ {m})

RECURSIVE Unique(_)
\* Series.unique(): distinct values in order of first appearance
Unique(s) ==
    IF Len(s) = 0 THEN <<>>
    ELSE LET u == Unique(SubSeq(s, 1, Len(s) - 1))
             x == s[Len(s)]
         IN IF \E j \in 1..Len(u) : u[j] = x THEN u ELSE Append(u, x)

GroupColumn(g) == [i \in 1..Len(g) |-> g[i].group]

GroupOrder_FirstSeen(g) == Unique(GroupColumn(g))

\* df.groupby('group'): one group per distinct key, keys ascending
GroupOrder(g) == SortedSeq({g[i].group : i \in 1..Len(g)})

Returns(rows) == [i \in 1..Len(rows) |-> rows[i].return]

\* 'is_green': 'mean'
GreenProbability(rows) ==
    Rat(Len(SelectSeq(rows, LAMBDA r : r.is_green)), Len(rows))

\* 'return': 'std' (ddof = 1), given as its square: missing with fewer than
\* two non-missing returns
ReturnVariance(rows) ==
    LET c == DropNaN(Returns(rows))
        m == Mean(c)
        sq == [i \in 1..Len(c) |-> RMul(RSub(c[i], m), RSub(c[i], m))]
    IN IF Len(c) < 2 THEN NaN ELSE RDiv(RSum(sq), Int2Rat(Len(c) - 1))

\* pd.Series.mode(x)[0], or missing when the mode is empty: the smallest of
\* the most frequent non-missing values
ModeOrNaN(s) ==
    LET c == DropNaN(s)
        n(v) == Len(SelectSeq(c, LAMBDA x : x = v))
        top == {c[i] : i \in {j \in 1..Len(c) : \A k \in 1..Len(c) : n(c[k]) <= n(c[j])}}
    IN IF Len(c) = 0 THEN NaN
       ELSE CHOOSE v \in top : \A w \in top : RLe(v, w)

\* green_days['return'].mean() if not green_days.empty else 0
SideReturn(rows, green) ==
    LET side == SelectSeq(rows, LAMBDA r : r.is_green = green)
    IN IF Len(side) = 0 THEN Int2Rat(0) ELSE Mean(Returns(side))

\* 1 - agg_data['green_probability']
RedProbability(gp) == RSub(Int2Rat(1), gp)

SummaryRow(g, key) ==
    LET rows == SelectSeq(g, LAMBDA r : r.group = key)
        gp == GreenProbability(rows)
    IN [key |-> key,
        green_probability |-> gp,
        avg_return |-> Mean(Returns(rows)),
        return_std |-> [squared |-> ReturnVariance(rows)],
        avg_atr |-> Mean([i \in 1..Len(rows) |-> rows[i].atr]),
        most_common_atr |-> ModeOrNaN([i \in 1..Len(rows) |-> rows[i].atr_category]),
        red_probability |-> RedProbability(gp),
        avg_green_return |-> SideReturn(rows, TRUE),
        avg_red_return |-> SideReturn(rows, FALSE)]

\* the aggregation of the grouped table, one summary row per group
Aggregate(g) ==
    LET order == GroupOrder(g)
    IN [j \in 1..Len(order) |-> SummaryRow(g, order[j])]

group_name(kind) ==
    CASE kind = "decennial" -> "Year Digit"
      [] kind = "presidential" -> "Presidential Year"
      [] kind = "quarter" -> "Quarter"
      [] kind = "month" -> "Month"
      [] kind = "week" -> "Week of Year"
      [] kind = "week_of_month" -> "Week of Month"
      [] kind = "day" -> "Day of Week"
      [] kind = "session" -> "Trading Session"
      [] OTHER -> ""

ATRPeriod == 14

\* the table with return, is_green, atr and atr_category (lines 251-254)
Enriched(d) ==
    LET r == calculate_returns(d)
        atr_values == calculate_atr(r, ATRPeriod)
        cats == categorize_atr(atr_values)
    IN [i \in 1..Len(r) |->
          [date |-> r[i].date, open |-> r[i].open, high |-> r[i].high,
           low |-> r[i].low, close |-> r[i].close, return |-> r[i].return,
           is_green |-> r[i].is_green, atr |-> atr_values[i],
           atr_category |-> cats[i]]]

\* what has been computed when the profile-specific branch is reached
StagesBeforeBranch(fp) ==
    {"returns", "atr", "atr_category"} \cup (IF fp.given THEN {"filter"} ELSE {})

\* prepare_profile_data(df, profile_type, filter_params): an unknown
\* profile_type creates no 'group' column and groupby raises KeyError; the
\* session branch reads df['date'].iloc[0], an IndexError on an empty table
prepare_profile_data(d, kind, fp) ==
    LET e == Enriched(d)
        f == IF fp.given
             THEN filter_data_by_timeframe(e, fp.start_date, fp.end_date)
             ELSE e
        failed(what) == [status |-> what, computed |-> StagesBeforeBranch(fp),
                         group_name |-> group_name(kind), rows |-> <<>>]
    IN IF kind \notin ProfileKinds THEN failed("KeyError")
       ELSE IF kind = "session" /\ Len(f) = 0 THEN failed("IndexError")
       ELSE [status |-> "returned",
             computed |-> StagesBeforeBranch(fp) \cup {"group", "aggregate"},
             group_name |-> group_name(kind),
             rows |-> Aggregate(Grouped(f, kind))]

ProfNotCalled == [status |-> "idle", computed |-> {}, group_name |-> "", rows |-> <<>>]

(***************************************************************************)
(* Inputs                                                                  *)
(***************************************************************************)

MaxRows == 3

\* timestamps a loaded table may hold, ascending: two weekdays, a Saturday,
\* three bars of one Monday (pre-market, regular, post-market) and a Sunday
\* that lies in ISO week 53 of the year before
Candidates ==
    <<Ts(2020, 1, 1, 0, 0), Ts(2020, 1, 2, 0, 0), Ts(2020, 2, 1, 0, 0),
      Ts(2020, 2, 3, 8, 0), Ts(2020, 2, 3, 10, 0), Ts(2020, 2, 3, 17, 0),
      Ts(2021, 1, 3, 0, 0)>>

\* open/high/low/close of a green, a red and a flat bar
Shapes ==
    {[open |-> 1, high |-> 3, low |-> 1, close |-> 2],
     [open |-> 2, high |-> 2, low |-> 1, close |-> 1],
     [open |-> 2, high |-> 4, low |-> 2, close |-> 2]}

Bar(t, s) == [date |-> t, open |-> s.open, high |-> s.high, low |-> s.low, close |-> s.close]

\* non-empty tables of at most MaxRows bars, strictly ascending by date
Tables ==
    UNION {LET idx == SortedSeq(X)
           IN {[i \in 1..Len(idx) |-> Bar(Candidates[idx[i]], f[i])] :
                  f \in [1..Len(idx) -> Shapes]} :
           X \in {Y \in SUBSET (1..Len(Candidates)) :
                     Cardinality(Y) >= 1 /\ Cardinality(Y) <= MaxRows}}

\* the date inputs of the UI are midnight timestamps
RangeDates == {None, Ts(2020, 1, 2, 0, 0), Ts(2020, 2, 3, 0, 0)}

FilterInputs ==
    {NoFilter} \cup
    {[given |-> TRUE, start_date |-> a, end_date |-> b] : a, b \in RangeDates}

KindInputs == ProfileKinds \cup {"yearly"}

NumYears == 8
Years == 2019..(2019 + NumYears - 1)
TimesOfDay == {<<0, 0>>, <<9, 29>>, <<9, 30>>, <<15, 59>>, <<16, 0>>, <<23, 59>>}

Stamps ==
    {Ts(y, m, d, hm[1], hm[2]) :
        y \in Years, m \in 1..12, d \in 1..31, hm \in TimesOfDay}

NoKeys ==
    [called |-> FALSE, decennial |-> 0, presidential |-> 0, quarter |-> 0,
     month |-> 0, week |-> 0, week_of_month |-> 0, day |-> 0,
     day_kept |-> FALSE, session |-> 0, by_time |-> FALSE]

(***************************************************************************)
(* Barcode table (src/visualizations.py)                                   *)
(***************************************************************************)

\* a timestamp in minutes, for differences of timestamps
Minutes(t) == Ordinal(t) * 1440 + t.hour * 60 + t.minute

Distance(a, b) == Abs(Minutes(a) - Minutes(b))

ClosestIndex_LastOnTie(d, date) ==
    CHOOSE i \in 1..Len(d) :
        /\ \A j \in 1..Len(d) : Distance(d[i].date, date) <= Distance(d[j].date, date)
        /\ \A j \in (i + 1)..Len(d) : Distance(d[j].date, date) > Distance(d[i].date, date)

\* (df['date'] - pd.to_datetime(date)).abs().idxmin(): the first row at the
\* smallest distance
ClosestIndex(d, date) ==
    CHOOSE i \in 1..Len(d) :
        /\ \A j \in 1..Len(d) : Distance(d[i].date, date) <= Distance(d[j].date, date)
        /\ \A j \in 1..(i - 1) : Distance(d[j].date, date) > Distance(d[i].date, date)

\* the profiles list of display_barcode_table for a non-empty table
display_barcode_table(d, date) ==
    LET target_date == d[ClosestIndex(d, date)].date
    IN <<[name |-> "Decennial", total |-> 10, current |-> target_date.year % 10],
         [name |-> "Presidential", total |-> 4,
          current |-> ((target_date.year - 1) % 4) + 1],
         [name |-> "Quarter", total |-> 4, current |-> Quarter(target_date)],
         [name |-> "Month", total |-> 12, current |-> target_date.month],
         [name |-> "Week of Month", total |-> 4,
          current |-> (target_date.day + 6) \div 7],
         [name |-> "Week of Year", total |-> 52, current |-> IsoWeek(target_date)],
         [name |-> "Day of Week", total |-> 5,
          current |-> Min(DayOfWeek(target_date) + 1, 5)],
         [name |-> "Session", total |-> 3, current |-> 1]>>

(***************************************************************************)
(* The caller's table across a call.  A frame holds the object the caller  *)
(* keeps (caller), the object the callee's name df is bound to (local) and *)
(* whether the two are one object (alias).                                 *)
(***************************************************************************)

\* a table passed as an argument
Frame(d) == [caller |-> d, local |-> d, alias |-> TRUE]

Copy_Alias(f) == f

\* df = df.copy()
Copy(f) == [f EXCEPT !.alias = FALSE]

\* df[column] = values: writes into the object df is bound to
Store(f, t) ==
    [caller |-> IF f.alias THEN t ELSE f.caller, local |-> t, alias |-> f.alias]

\* df = df[mask]: binds df to a new object
Rebind(f, t) == [caller |-> f.caller, local |-> t, alias |-> FALSE]

calculate_returns_frame(f) ==
    LET g == Copy(f) IN Store(g, calculate_returns(g.local))

\* calculate_atr reads df['high'], df['low'], df['close'] and stores nothing
calculate_atr_frame(f) == f

\* categorize_atr builds its result with np.full_like and stores nothing in
\* its argument
categorize_atr_frame(f) == f

\* get_sequential_patterns reads series.iloc[...] and stores nothing
get_sequential_patterns_frame(f) == f

filter_data_by_timeframe_frame(f, start_date, end_date) ==
    LET g == Copy(f)
    IN IF IsNone(start_date) /\ IsNone(end_date) THEN g
       ELSE Rebind(g, filter_data_by_timeframe(g.local, start_date, end_date))

prepare_profile_data_frame_InPlace(f, kind, fp) ==
    Store(f, IF fp.given
             THEN filter_data_by_timeframe(f.local, fp.start_date, fp.end_date)
             ELSE f.local)

prepare_profile_data_frame(f, kind, fp) ==
    LET f1 == Copy(f)
        f2 == calculate_returns_frame(f1)
        f3 == Store(f2, Enriched(f2.local))
        f4 == IF fp.given
              THEN filter_data_by_timeframe_frame(f3, fp.start_date, fp.end_date)
              ELSE f3
    IN IF kind \notin ProfileKinds \/ (kind = "session" /\ Len(f4.local) = 0)
       THEN f4
       ELSE LET f5 == Store(f4, WithGroup(f4.local, kind))
            IN IF kind = "day" THEN Rebind(f5, Grouped(f4.local, kind)) ELSE f5

\* pd.to_datetime of a column that already holds timestamps
to_datetime(d) ==
    [i \in 1..Len(d) |->
        [d[i] EXCEPT !.date = Ts(d[i].date.year, d[i].date.month, d[i].date.day,
                                 d[i].date.hour, d[i].date.minute)]]

\* df['date'] = pd.to_datetime(df['date']) on data_dict's own table
display_barcode_table_frame(f, date) == Store(f, to_datetime(f.local))

(***************************************************************************)
(* The paths from the presentation layer to the derived columns            *)
(***************************************************************************)

\* the columns cols of table d
Project(d, cols) == [i \in 1..Len(d) |-> [c \in cols |-> d[i][c]]]

\* the window of filter_params applied to a table
Window_Of(d, fp) ==
    IF fp.given THEN filter_data_by_timeframe(d, fp.start_date, fp.end_date) ELSE d

ProfileTable_FilterFirst(d, fp) == Enriched(Window_Of(d, fp))

\* display_profile -> prepare_profile_data: the table at the end of line 258
ProfileTable(d, fp) == Window_Of(Enriched(d), fp)

\* the sequential-patterns tab: filtered_df after calculate_returns
PatternTabTable(d, fp) == calculate_returns(Window_Of(d, fp))

\* the pattern expander of display_profile: filtered_df with is_green, atr
\* and atr_category
ExpanderTable(d, fp) ==
    LET w == Window_Of(d, fp)
        atr_values == calculate_atr(w, ATRPeriod)
        cats == categorize_atr(atr_values)
    IN [i \in 1..Len(w) |->
          [date |-> w[i].date, open |-> w[i].open, high |-> w[i].high,
           low |-> w[i].low, close |-> w[i].close, is_green |-> IsGreen(w[i]),
           atr |-> atr_values[i], atr_category |-> cats[i]]]

\* the derived columns each path computes
PathColumns(path) ==
    CASE path = "profile" -> {"date", "return", "is_green", "atr", "atr_category"}
      [] path = "pattern_tab" -> {"date", "return", "is_green"}
      [] path = "expander" -> {"date", "is_green", "atr", "atr_category"}

\* a table long enough for the rolling volatility to be defined
LongLen == ATRPeriod + 2

ShapeCycle ==
    <<[open |-> 1, high |-> 3, low |-> 1, close |-> 2],
      [open |-> 2, high |-> 2, low |-> 1, close |-> 1],
      [open |-> 2, high |-> 4, low |-> 2, close |-> 2]>>

LongTables ==
    {[i \in 1..LongLen |-> Bar(Ts(2020, 3, i, 0, 0), ShapeCycle[((i * v) % 3) + 1])] :
        v \in 1..3}

\* the date windows of the paths
PathWindows ==
    {[given |-> TRUE, start_date |-> a, end_date |-> b] :
        a \in {None, Ts(2020, 1, 2, 0, 0), Ts(2020, 3, 2, 0, 0)},
        b \in {None, Ts(2020, 2, 3, 0, 0), Ts(2020, 3, 15, 0, 0)}}

\* the date ranges of the calls made on the session's table
RepeatFilters ==
    {NoFilter,
     [given |-> TRUE, start_date |-> Ts(2020, 1, 2, 0, 0), end_date |-> None],
     [given |-> TRUE, start_date |-> None, end_date |-> Ts(2020, 2, 3, 0, 0)],
     [given |-> TRUE, start_date |-> Ts(2020, 1, 2, 0, 0),
      end_date |-> Ts(2020, 2, 3, 0, 0)]}

\* reference dates picked in the barcode tab (midnight)
RefDates ==
    {Ts(2020, 1, 1, 0, 0), Ts(2020, 1, 2, 0, 0), Ts(2020, 1, 17, 0, 0),
     Ts(2020, 2, 2, 0, 0), Ts(2020, 2, 3, 0, 0), Ts(2020, 7, 1, 0, 0)}

MaxBars == 4
MaxPeriod == 3

\* tables handed to calculate_atr: bars on the first dates of Candidates
BarTables ==
    UNION {{[i \in 1..n |-> Bar(Candidates[i], f[i])] : f \in [1..n -> Shapes]} :
           n \in 1..Min(MaxBars, Len(Candidates))}

AtrNotCalled == [called |-> FALSE, values |-> <<>>, categories |-> <<>>]

NoPath == [path |-> "", rows |-> <<>>]

(***************************************************************************)
(* Actions and specifications                                              *)
(***************************************************************************)

(***************************************************************************)
(* The session: connection, data loading and the loading buttons           *)
(* (src/main.py, src/data_loading.py, src/ui_components.py)                *)
(***************************************************************************)

\* config.timeframe_files, each file named by its timeframe code
\* (file.split('.')[0])
timeframe_files ==
    <<"1min", "5min", "10min", "15min", "30min", "1h", "4h", "D", "W", "M">>

sorted_timeframes_Unreversed == timeframe_files

\* list(reversed(timeframe_files))
sorted_timeframes == ReverseSeq(timeframe_files)

SeqRange(s) == {s[i] : i \in 1..Len(s)}

Timeframes == SeqRange(timeframe_files)

\* f"load_{tf}_btn"
ButtonKey(tf) == "load_" \o tf \o "_btn"

ButtonKeys ==
    {"connect_btn", "monthly_btn", "load_all_btn"} \cup
    {ButtonKey(tf) : tf \in Timeframes \ {"M"}}

\* the timeframe an individual loading button was made for
TimeframeOf(key) == CHOOSE tf \in Timeframes : ButtonKey(tf) = key

\* st.session_state after the initialisation of main.py; a key that is not
\* in st.session_state is FALSE (connected, data_loaded), "Not loaded"
\* (loading_status) or "absent" (button states)
InitialSessionState ==
    [connected |-> FALSE,
     data_loaded |-> FALSE,
     data_dict |-> {},
     loading_complete |-> FALSE,
     loading_status |-> [tf \in Timeframes |-> "Not loaded"],
     timeframes_loaded |-> <<>>,
     next_timeframe_to_load |-> 0,
     load_requested |-> FALSE,
     button_state |-> [k \in ButtonKeys |-> "absent"]]

reset_button_state(s, key) ==
    IF s.button_state[key] # "absent"
    THEN [s EXCEPT !.button_state[key] = "ready"]
    ELSE s

\* ok = FALSE: load_data_from_azure raises
load_monthly_data(s, ok) ==
    [state |-> IF ok
               THEN [s EXCEPT !.data_dict = @ \cup {"M"},
                              !.timeframes_loaded = Append(@, "M"),
                              !.loading_status["M"] = "Loaded"]
               ELSE s,
     ret |-> ok]

NoCall == [made |-> FALSE, ret |-> FALSE, visited |-> "", loaded |-> FALSE,
           index |-> 0]

load_next_timeframe(s, ok) ==
    LET n == s.next_timeframe_to_load
    IN IF n >= Len(sorted_timeframes)
       THEN [state |-> [s EXCEPT !.loading_complete = TRUE],
             call |-> [made |-> TRUE, ret |-> FALSE, visited |-> "",
                       loaded |-> FALSE, index |-> n]]
       ELSE LET timeframe == sorted_timeframes[n + 1]
            IN IF timeframe = "M"
               THEN [state |-> [s EXCEPT !.next_timeframe_to_load = n + 1],
                     call |-> [made |-> TRUE, ret |-> FALSE, visited |-> "M",
                               loaded |-> FALSE, index |-> n]]
               ELSE [state |->
                        IF ok
                        THEN [s EXCEPT !.data_dict = @ \cup {timeframe},
                                       !.timeframes_loaded = Append(@, timeframe),
                                       !.loading_status[timeframe] = "Loaded",
                                       !.next_timeframe_to_load = n + 1]
                        ELSE [s EXCEPT !.loading_status[timeframe] = "Error",
                                       !.next_timeframe_to_load = n + 1],
                     call |-> [made |-> TRUE, ret |-> TRUE, visited |-> timeframe,
                               loaded |-> ok, index |-> n]]

get_remaining_timeframes(s) ==
    SelectSeq(sorted_timeframes,
              LAMBDA tf : tf # "M" /\ tf \notin SeqRange(s.timeframes_loaded))

load_specific_timeframe(s, timeframe, ok) ==
    [state |-> IF ok
               THEN [s EXCEPT !.data_dict = @ \cup {timeframe},
                              !.timeframes_loaded =
                                  IF timeframe \notin SeqRange(@)
                                  THEN Append(@, timeframe) ELSE @,
                              !.loading_status[timeframe] = "Loaded"]
               ELSE [s EXCEPT !.loading_status[timeframe] = "Error"],
     ret |-> ok]

connect_callback(s) ==
    reset_button_state([s EXCEPT !.connected = TRUE], "connect_btn")

load_monthly_callback(s, ok) ==
    LET r == load_monthly_data(s, ok)
    IN reset_button_state(IF r.ret THEN [r.state EXCEPT !.data_loaded = TRUE]
                                   ELSE r.state,
                          "monthly_btn")

load_all_callback(s) ==
    reset_button_state([s EXCEPT !.load_requested = TRUE], "load_all_btn")

\* the value of the loop variable tf when a callback of make_callback runs:
\* the loop of connection_section has ended, tf is the last remaining
\* timeframe
LoopVariableAtCall(s) ==
    LET remaining_timeframes == get_remaining_timeframes(s)
    IN remaining_timeframes[Len(remaining_timeframes)]

\* callback of make_callback(timeframe): loads `timeframe`, resets the
\* button of tf
make_callback(s, timeframe, ok) ==
    reset_button_state(load_specific_timeframe(s, timeframe, ok).state,
                       ButtonKey(LoopVariableAtCall(s)))

on_click(s, key, ok) ==
    CASE key = "connect_btn" -> connect_callback(s)
      [] key = "monthly_btn" -> load_monthly_callback(s, ok)
      [] key = "load_all_btn" -> load_all_callback(s)
      [] OTHER -> make_callback(s, TimeframeOf(key), ok)

handle_click_NoMark(s, key, ok) ==
    IF s.button_state[key] = "ready" THEN on_click(s, key, ok) ELSE s

\* handle_click of loading_button
handle_click(s, key, ok) ==
    IF s.button_state[key] = "ready"
    THEN on_click([s EXCEPT !.button_state[key] = "loading"], key, ok)
    ELSE s

RenderedKeys_NoMonthlyGate(s) ==
    IF ~s.connected THEN {"connect_btn"}
    ELSE (IF "M" \notin SeqRange(s.timeframes_loaded) THEN {"monthly_btn"} ELSE {})
         \cup
         (IF ~s.load_requested
          THEN {ButtonKey(tf) : tf \in SeqRange(get_remaining_timeframes(s))}
          ELSE {})

\* the keys connection_section passes to loading_button in state s
RenderedKeys(s) ==
    IF ~s.connected THEN {"connect_btn"}
    ELSE IF "M" \notin SeqRange(s.timeframes_loaded) THEN {"monthly_btn"}
    ELSE LET remaining_timeframes == get_remaining_timeframes(s)
         IN IF remaining_timeframes = <<>> THEN {}
            ELSE (IF ~s.loading_complete /\ ~s.load_requested
                  THEN {"load_all_btn"} ELSE {})
                 \cup
                 (IF ~s.load_requested
                  THEN {ButtonKey(tf) : tf \in SeqRange(remaining_timeframes)}
                  ELSE {})

\* connection_section reaches show_bulk_loading_progress in state s
ProgressShown(s) ==
    /\ s.connected
    /\ "M" \in SeqRange(s.timeframes_loaded)
    /\ get_remaining_timeframes(s) # <<>>
    /\ s.load_requested
    /\ ~s.loading_complete

NoProgress == [shown |-> FALSE, loaded_tfs |-> 0, total_tfs |-> 0, raised |-> FALSE]

\* st.progress raises StreamlitAPIException for a value outside [0.0, 1.0]
show_bulk_loading_progress(s) ==
    LET total_tfs == Len(timeframe_files) - 1
        loaded_tfs == Len(s.timeframes_loaded) - 1
    IN [shown |-> TRUE, loaded_tfs |-> loaded_tfs, total_tfs |-> total_tfs,
        raised |-> total_tfs > 0 /\ (loaded_tfs < 0 \/ loaded_tfs > total_tfs)]

\* loading_button creates the state of every button it renders
connection_section(s) ==
    LET rendered == RenderedKeys(s)
    IN [state |-> [s EXCEPT !.button_state =
                      [k \in ButtonKeys |->
                          IF k \in rendered /\ @[k] = "absent"
                          THEN "ready" ELSE @[k]]],
        progress |-> IF ProgressShown(s) THEN show_bulk_loading_progress(s)
                     ELSE NoProgress]

\* the buttons of the page that can be clicked: a button in state "loading"
\* is drawn disabled
Clickable(s) == {k \in RenderedKeys(s) : s.button_state[k] = "ready"}

analysis_section(s, ok) ==
    IF s.load_requested /\ ~s.loading_complete
    THEN load_next_timeframe(s, ok)
    ELSE [state |-> s, call |-> NoCall]

\* one run of the script: an exception in connection_section ends the run
main(s, ok) ==
    LET c == connection_section(s)
    IN IF ~c.progress.raised /\ c.state.data_loaded
       THEN LET a == analysis_section(c.state, ok)
            IN [state |-> a.state, progress |-> c.progress,
                analysis_ran |-> TRUE, call |-> a.call]
       ELSE [state |-> c.state, progress |-> c.progress,
             analysis_ran |-> FALSE, call |-> NoCall]

\* the key reset_button_state is called with by the callback of `key`
ResetTarget(s, key) ==
    IF key \in {"connect_btn", "monthly_btn", "load_all_btn"} THEN key
    ELSE ButtonKey(LoopVariableAtCall(s))

\* the timeframe the callback of `key` loads, if any
CallbackLoads(key) ==
    IF key = "monthly_btn" THEN {"M"}
    ELSE IF key \in {"connect_btn", "load_all_btn"} THEN {}
    ELSE {TimeframeOf(key)}

\* the buttons the user clicks
ClickChoices ==
    {"connect_btn", "monthly_btn", "load_all_btn", ButtonKey("W"), ButtonKey("D")}

\* failures of load_data_from_azure in one session
MaxFaults == 1

NoEvent ==
    [kind |-> "none", key |-> "", invoked |-> FALSE, was_unreset |-> FALSE,
     unreset |-> {}, attempts |-> {}, monthly_before |-> FALSE,
     progress |-> NoProgress, analysis_ran |-> FALSE, call |-> NoCall,
     faults |-> 0]

MineIdle == series = <<>> /\ pattern_length = 3 /\ mine = NotCalled
ProfIdle ==
    /\ df = <<>>
    /\ profile_type = ""
    /\ filter_params = NoFilter
    /\ prof = ProfNotCalled
KeyIdle == stamp = None /\ keys = NoKeys
AtrIdle == bars = <<>> /\ atr_period = ATRPeriod /\ atr = AtrNotCalled
BarIdle == ref_date = None /\ barcode = <<>>
CallIdle == calls = 0 /\ prev = ProfNotCalled /\ last = ""
PathIdle == derived = NoPath
SessIdle == session_state = InitialSessionState /\ event = NoEvent

\* one call of prepare_profile_data on the caller's table
ProfileCall ==
    /\ prof.status = "idle"
    /\ \E kind \in KindInputs, fp \in FilterInputs :
          /\ profile_type' = kind
          /\ filter_params' = fp
          /\ prof' = prepare_profile_data(df, kind, fp)
    /\ UNCHANGED df
    /\ UNCHANGED <<mineVars, keyVars, atrVars, barVars, callVars, derived, sessVars>>

\* the group column of every profile kind for one row with date `stamp`; the
\* table's first row is this row, a midnight bar or a bar stamped 09:30
KeyCall ==
    /\ ~keys.called
    /\ \E first \in {stamp, [stamp EXCEPT !.hour = 0, !.minute = 0],
                     [stamp EXCEPT !.hour = 9, !.minute = 30]} :
          keys' =
                [called |-> TRUE,
                 decennial |-> GroupKey("decennial", stamp),
                 presidential |-> GroupKey("presidential", stamp),
                 quarter |-> GroupKey("quarter", stamp),
                 month |-> GroupKey("month", stamp),
                 week |-> GroupKey("week", stamp),
                 week_of_month |-> GroupKey("week_of_month", stamp),
                 day |-> GroupKey("day", stamp),
                 day_kept |-> Len(Grouped(<<[date |-> stamp, open |-> 1, high |-> 1,
                                            low |-> 1, close |-> 1, return |-> NaN,
                                            is_green |-> FALSE, atr |-> NaN,
                                            atr_category |-> NaN]>>, "day")) = 1,
                 session |-> SessionKey(<<[date |-> first]>>, stamp),
                 by_time |-> HasTimeData(<<[date |-> first]>>)]
    /\ UNCHANGED stamp
    /\ UNCHANGED <<mineVars, profVars, atrVars, barVars, callVars, derived, sessVars>>

\* calculate_atr on a table, then categorize_atr on its result (lines 252-254)
AtrCall ==
    /\ ~atr.called
    /\ LET atr_values == calculate_atr(bars, atr_period)
       IN atr' = [called |-> TRUE, values |-> atr_values,
                  categories |-> categorize_atr(atr_values)]
    /\ UNCHANGED <<bars, atr_period>>
    /\ UNCHANGED <<mineVars, profVars, keyVars, barVars, callVars, derived, sessVars>>

\* display_barcode_table on the caller's table
BarcodeCall ==
    /\ barcode = <<>>
    /\ barcode' = display_barcode_table(df, ref_date)
    /\ UNCHANGED <<df, profile_type, filter_params, prof, ref_date>>
    /\ UNCHANGED <<mineVars, keyVars, atrVars, callVars, derived, sessVars>>

\* the core operations, each on the table the session holds
ReturnsOp ==
    /\ df' = calculate_returns_frame(Frame(df)).caller
    /\ last' = "calculate_returns"

AtrOp ==
    /\ df' = calculate_atr_frame(Frame(df)).caller
    /\ last' = "calculate_atr"

CategorizeOp ==
    /\ df' = categorize_atr_frame(Frame(df)).caller
    /\ last' = "categorize_atr"

FilterOp ==
    /\ \E fp \in RepeatFilters :
          df' = filter_data_by_timeframe_frame(Frame(df), fp.start_date,
                                               fp.end_date).caller
    /\ last' = "filter_data_by_timeframe"

ProfileOp ==
    /\ \E kind \in KindInputs, fp \in RepeatFilters :
          df' = prepare_profile_data_frame(Frame(df), kind, fp).caller
    /\ last' = "prepare_profile_data"

MineOp ==
    /\ df' = get_sequential_patterns_frame(Frame(df)).caller
    /\ last' = "get_sequential_patterns"

BarcodeOp ==
    /\ \E date \in RefDates : df' = display_barcode_table_frame(Frame(df), date).caller
    /\ last' = "display_barcode_table"

CoreOp ==
    /\ \/ ReturnsOp \/ AtrOp \/ CategorizeOp \/ FilterOp
       \/ ProfileOp \/ MineOp \/ BarcodeOp
    /\ UNCHANGED <<profile_type, filter_params, prof, calls, prev>>
    /\ UNCHANGED <<mineVars, keyVars, atrVars, barVars, derived, sessVars>>

\* prepare_profile_data on the session's table, for the first time
FirstCall ==
    /\ calls = 0
    /\ \E kind \in KindInputs, fp \in RepeatFilters :
          /\ profile_type' = kind
          /\ filter_params' = fp
          /\ prof' = prepare_profile_data(df, kind, fp)
          /\ df' = prepare_profile_data_frame(Frame(df), kind, fp).caller
    /\ calls' = 1
    /\ UNCHANGED <<prev, last>>
    /\ UNCHANGED <<mineVars, keyVars, atrVars, barVars, derived, sessVars>>

\* the same call again, on the table the session holds now
SecondCall ==
    /\ calls = 1
    /\ prev' = prof
    /\ prof' = prepare_profile_data(df, profile_type, filter_params)
    /\ df' = prepare_profile_data_frame(Frame(df), profile_type, filter_params).caller
    /\ calls' = 2
    /\ UNCHANGED <<profile_type, filter_params, last>>
    /\ UNCHANGED <<mineVars, keyVars, atrVars, barVars, derived, sessVars>>

\* display_profile calls prepare_profile_data
ProfilePath ==
    /\ derived.path = ""
    /\ derived' = [path |-> "profile",
                   rows |-> Project(ProfileTable(df, filter_params),
                                    PathColumns("profile"))]
    /\ UNCHANGED <<df, profile_type, filter_params, prof>>
    /\ UNCHANGED <<mineVars, keyVars, atrVars, barVars, callVars, sessVars>>

\* the sequential-patterns tab; its two dates always come from the selector
PatternTabPath ==
    /\ derived.path = ""
    /\ ~IsNone(filter_params.start_date)
    /\ ~IsNone(filter_params.end_date)
    /\ derived' = [path |-> "pattern_tab",
                   rows |-> Project(PatternTabTable(df, filter_params),
                                    PathColumns("pattern_tab"))]
    /\ UNCHANGED <<df, profile_type, filter_params, prof>>
    /\ UNCHANGED <<mineVars, keyVars, atrVars, barVars, callVars, sessVars>>

\* the pattern expander of display_profile, reached when the aggregation of
\* the selected profile returned rows
ExpanderPath ==
    /\ derived.path = ""
    /\ \E kind \in ProfileKinds :
          LET agg_data == prepare_profile_data(df, kind, filter_params)
          IN agg_data.status = "returned" /\ agg_data.rows # <<>>
    /\ derived' = [path |-> "expander",
                   rows |-> Project(ExpanderTable(df, filter_params),
                                    PathColumns("expander"))]
    /\ UNCHANGED <<df, profile_type, filter_params, prof>>
    /\ UNCHANGED <<mineVars, keyVars, atrVars, barVars, callVars, sessVars>>

\* what a step made of an optional click and one script run recorded
Recorded(kind, key, invoked, ok, run) ==
    LET by_callback == IF invoked THEN CallbackLoads(key) ELSE {}
        by_bulk == IF run.call.made /\ run.call.visited \notin {"", "M"}
                   THEN {run.call.visited} ELSE {}
        target == IF invoked THEN {ResetTarget(session_state, key)} ELSE {}
    IN [kind |-> kind, key |-> key, invoked |-> invoked,
        was_unreset |-> invoked /\ key \in event.unreset,
        unreset |-> (event.unreset \cup (IF invoked THEN {key} ELSE {})) \ target,
        attempts |-> by_callback \cup by_bulk,
        monthly_before |-> "M" \in SeqRange(session_state.timeframes_loaded),
        progress |-> run.progress, analysis_ran |-> run.analysis_ran,
        call |-> run.call,
        faults |-> event.faults +
                      (IF ~ok /\ (by_callback \cup by_bulk) # {} THEN 1 ELSE 0)]

\* a load fails only where one is attempted, and only MaxFaults times
FaultAllowed(ok, e) ==
    ok \/ (e.attempts # {} /\ e.faults <= MaxFaults)

\* the user clicks a button: its on_click handler runs, then the script
Click ==
    /\ \E key \in Clickable(session_state) \cap ClickChoices, ok \in BOOLEAN :
          \E run \in {main(handle_click(session_state, key, ok), ok)} :
             \E e \in {Recorded("click", key,
                                session_state.button_state[key] = "ready",
                                ok, run)} :
                /\ FaultAllowed(ok, e)
                /\ session_state' = run.state
                /\ event' = e
    /\ UNCHANGED <<mineVars, profVars, keyVars, atrVars, barVars, callVars, derived>>

\* any other interaction: the script runs again
Rerun ==
    /\ \E ok \in BOOLEAN :
          \E run \in {main(session_state, ok)} :
             \E e \in {Recorded("rerun", "", FALSE, ok, run)} :
                /\ FaultAllowed(ok, e)
                /\ session_state' = run.state
                /\ event' = e
    /\ UNCHANGED <<mineVars, profVars, keyVars, atrVars, barVars, callVars, derived>>

InitMine ==
    /\ series \in SeriesInputs
    /\ pattern_length \in PatternLengths
    /\ mine = NotCalled
    /\ ProfIdle
    /\ KeyIdle
    /\ AtrIdle /\ BarIdle /\ CallIdle /\ PathIdle /\ SessIdle

NextMine == MineCall

SpecMine == InitMine /\ [][NextMine]_vars

InitProfile ==
    /\ df \in Tables
    /\ profile_type = ""
    /\ filter_params = NoFilter
    /\ prof = ProfNotCalled
    /\ MineIdle
    /\ KeyIdle
    /\ AtrIdle /\ BarIdle /\ CallIdle /\ PathIdle /\ SessIdle

NextProfile == ProfileCall

SpecProfile == InitProfile /\ [][NextProfile]_vars

InitKey ==
    /\ stamp \in {t \in Stamps : t.day <= DaysInMonth(t.year, t.month)}
    /\ keys = NoKeys
    /\ MineIdle
    /\ ProfIdle
    /\ AtrIdle /\ BarIdle /\ CallIdle /\ PathIdle /\ SessIdle

NextKey == KeyCall

SpecKey == InitKey /\ [][NextKey]_vars

InitAtr ==
    /\ bars \in BarTables
    /\ atr_period \in 1..MaxPeriod
    /\ atr = AtrNotCalled
    /\ MineIdle /\ ProfIdle /\ KeyIdle /\ BarIdle /\ CallIdle /\ PathIdle /\ SessIdle

NextAtr == AtrCall

SpecAtr == InitAtr /\ [][NextAtr]_vars

\* the date input of the barcode tab lies between the dates of the first
\* and the last bar of the table
InitBarcode ==
    /\ df \in Tables
    /\ ref_date \in {r \in RefDates :
                        /\ Ordinal(df[1].date) <= Ordinal(r)
                        /\ Ordinal(r) <= Ordinal(df[Len(df)].date)}
    /\ barcode = <<>>
    /\ profile_type = ""
    /\ filter_params = NoFilter
    /\ prof = ProfNotCalled
    /\ MineIdle /\ KeyIdle /\ AtrIdle /\ CallIdle /\ PathIdle /\ SessIdle

NextBarcode == BarcodeCall

SpecBarcode == InitBarcode /\ [][NextBarcode]_vars

InitFrame ==
    /\ df \in Tables
    /\ profile_type = ""
    /\ filter_params = NoFilter
    /\ prof = ProfNotCalled
    /\ MineIdle /\ KeyIdle /\ AtrIdle /\ BarIdle /\ CallIdle /\ PathIdle /\ SessIdle

NextFrame == CoreOp

SpecFrame == InitFrame /\ [][NextFrame]_vars

NextRepeat == FirstCall \/ SecondCall

SpecRepeat == InitFrame /\ [][NextRepeat]_vars

InitPaths ==
    /\ df \in Tables \cup LongTables
    /\ filter_params \in PathWindows
    /\ profile_type = ""
    /\ prof = ProfNotCalled
    /\ MineIdle /\ KeyIdle /\ AtrIdle /\ BarIdle /\ CallIdle /\ PathIdle /\ SessIdle

NextPaths == ProfilePath \/ PatternTabPath \/ ExpanderPath

SpecPaths == InitPaths /\ [][NextPaths]_vars

\* the first run of the script in a new session
InitSession ==
    /\ session_state = main(InitialSessionState, TRUE).state
    /\ event = [NoEvent EXCEPT !.kind = "first_run"]
    /\ MineIdle /\ ProfIdle /\ KeyIdle /\ AtrIdle /\ BarIdle /\ CallIdle /\ PathIdle

NextSession == Click \/ Rerun

SpecSession == InitSession /\ [][NextSession]_vars

\* the script keeps being run
SpecSessionLive == SpecSession /\ WF_vars(Rerun)

(***************************************************************************)
(* Claims                                                                  *)
(***************************************************************************)

RECURSIVE SumCounts(_)
SumCounts(items) ==
    IF Len(items) = 0 THEN 0 ELSE Head(items).count + SumCounts(Tail(items))

\* C1: for k >= 2 the counts returned by get_sequential_patterns sum to
\* max(0, len(series) - k + 1): every stride-1 window is counted exactly once.
C1_CountsSumToWindows ==
    (mine.status = "returned" /\ pattern_length >= 2) =>
        SumCounts(mine.patterns) = Max(0, Len(series) - pattern_length + 1)

C1_Witness ==
    /\ mine.status = "returned"
    /\ pattern_length >= 2
    /\ Len(series) > pattern_length
    /\ \E e \in 1..Len(mine.patterns) : mine.patterns[e].count >= 2

\* the stride-1 window of width k starting at index i (from 0), for 1 <= k
OccursAt(s, k, i, p) == i >= 0 /\ i + k <= Len(s) /\ SubSeq(s, i + 1, i + k) = p

\* C2: the returned pairs are in descending order of count, and entries with
\* equal counts appear in the order of their first occurrence in the series.
C2_RankedStable ==
    (mine.status = "returned" /\ pattern_length >= 2) =>
        /\ \A e \in 1..Len(mine.patterns) :
              LET x == mine.patterns[e]
              IN /\ OccursAt(series, pattern_length, x.first, x.pattern)
                 /\ ~HasNaN(x.pattern) =>
                        \A i \in 0..(x.first - 1) :
                            ~OccursAt(series, pattern_length, i, x.pattern)
        /\ \A e1, e2 \in 1..Len(mine.patterns) :
              e1 < e2 =>
                  /\ mine.patterns[e1].count >= mine.patterns[e2].count
                  /\ mine.patterns[e1].count = mine.patterns[e2].count =>
                        mine.patterns[e1].first < mine.patterns[e2].first

\* the scenario [T,T,F,T,T,F,T], k = 2: three patterns tied at 2 are listed
\* (T,T), (T,F), (F,T)
C2_Witness ==
    /\ mine.status = "returned"
    /\ series = <<"True", "True", "False", "True", "True", "False", "True">>
    /\ pattern_length = 2
    /\ Len(mine.patterns) = 3
    /\ mine.patterns[1].count = 2
    /\ mine.patterns[1].pattern = <<"True", "True">>
    /\ mine.patterns[2].pattern = <<"True", "False">>
    /\ mine.patterns[3].pattern = <<"False", "True">>
    /\ mine.patterns[1].count = mine.patterns[3].count

\* C3: when k exceeds the series length (the empty series included) the
\* result is the empty list and the call does not fail.
C3_TooLongIsEmpty ==
    (mine.status # "idle" /\ pattern_length > Len(series)) =>
        (mine.status = "returned" /\ mine.patterns = <<>>)

C3_Witness ==
    /\ mine.status = "returned"
    /\ Len(series) >= 1
    /\ pattern_length > Len(series)
    /\ mine.patterns = <<>>

\* C4: a call with pattern_length < 2 is rejected with a configuration error
\* before any window is formed; it never returns a ranked result.
C4_ShortPatternRejected ==
    (mine.status # "idle" /\ pattern_length < 2) =>
        (mine.status = "ConfigurationError" /\ mine.windows = 0)

\* C5: an aggregation call whose profile_type is not one of the eight kinds
\* is rejected before returns, ATR, categories or filtering are computed.
C5_UnknownKindRejectedFirst ==
    (prof.status # "idle" /\ profile_type \notin ProfileKinds) =>
        (prof.status \notin {"idle", "returned"} /\ prof.computed = {})

\* rows of the caller's table inside the requested date range
InWindow(i) ==
    ~filter_params.given
    \/ InRange(df[i].date, filter_params.start_date, filter_params.end_date)

\* rows that take part in the aggregation: inside the range and, for the day
\* kind, not on a Saturday or Sunday
Surviving ==
    {i \in 1..Len(df) :
        InWindow(i) /\ (profile_type = "day" => DayOfWeek(df[i].date) <= 4)}

\* the group key the aggregation is to give row i
KeyOf(i) ==
    IF profile_type = "session"
    THEN LET first == CHOOSE j \in Surviving : \A k \in Surviving : j <= k
         IN IF df[first].date.hour # 0 \/ df[first].date.minute # 0
            THEN determine_session(df[i].date)
            ELSE 1
    ELSE GroupKey(profile_type, df[i].date)

Members(key) == {i \in Surviving : KeyOf(i) = key}

\* C6: for each of the eight kinds, when no row is left after the date-range
\* filter the call returns an empty summary table and raises no error.
C6_EmptyRangeReturnsEmpty ==
    (/\ prof.status # "idle"
     /\ profile_type \in ProfileKinds
     /\ \A i \in 1..Len(df) : ~InWindow(i)) =>
        (prof.status = "returned" /\ prof.rows = <<>>)

\* C7: the summary rows are in strictly ascending key order and their keys
\* are exactly the distinct group keys of the rows that survive filtering.
C7_KeysAscendingAndExact ==
    prof.status = "returned" =>
        /\ \A j \in 1..(Len(prof.rows) - 1) : prof.rows[j].key < prof.rows[j + 1].key
        /\ {prof.rows[j].key : j \in 1..Len(prof.rows)} = {KeyOf(i) : i \in Surviving}

\* three surviving rows in two groups, met in descending key order
C7_Witness ==
    /\ prof.status = "returned"
    /\ Len(prof.rows) = 2
    /\ Cardinality(Surviving) = 3
    /\ \E i, k \in Surviving : i < k /\ KeyOf(i) > KeyOf(k)

\* C8: every group key lies in its kind's domain: decennial 0..9,
\* presidential 1..4, quarter 1..4, month 1..12, week 1..53, week_of_month
\* 1..5, day 1..5 for the rows kept by the weekend drop, session 0..2.
C8_KeysInDomain ==
    keys.called =>
        /\ keys.decennial \in 0..9
        /\ keys.presidential \in 1..4
        /\ keys.quarter \in 1..4
        /\ keys.month \in 1..12
        /\ keys.week \in 1..53
        /\ keys.week_of_month \in 1..5
        /\ keys.day \in 1..7
        /\ keys.day_kept <=> keys.day \in 1..5
        /\ keys.session \in 0..2

\* 1 January 2021: a Friday in ISO week 53, post-market bar
C8_Witness ==
    /\ keys.called
    /\ stamp = Ts(2021, 1, 1, 16, 0)
    /\ keys.week = 53
    /\ keys.decennial = 1
    /\ keys.presidential = 1
    /\ keys.day = 5
    /\ keys.session = 2

C10_SmallGroupStdIsZero ==
    prof.status = "returned" =>
        \A j \in 1..Len(prof.rows) :
            LET defined == {i \in Members(prof.rows[j].key) : i > 1}
            IN Cardinality(defined) < 2 =>
                  prof.rows[j].return_std.squared = Int2Rat(0)

\* the return of row i of the caller's table: undefined for the first bar
DefinedReturnSum(rows) ==
    RSum([j \in 1..Len(rows) |->
            Rat(100 * (df[rows[j]].close - df[rows[j] - 1].close), df[rows[j] - 1].close)])

\* what C11 asks of one side (up rows or non-up rows) of a group
ExpectedSideReturn(side) ==
    IF side = {} THEN Int2Rat(0)
    ELSE RDiv(DefinedReturnSum(SortedSeq({i \in side : i > 1})),
              Int2Rat(Cardinality(side)))

\* C11: avg_green_return is the sum of the defined returns of the group's up
\* rows divided by the number of its up rows, 0 when it has none (likewise
\* avg_red_return over the non-up rows); it is never missing.
C11_SideReturnsDefined ==
    prof.status = "returned" =>
        \A j \in 1..Len(prof.rows) :
            LET m == Members(prof.rows[j].key)
                up == {i \in m : df[i].close > df[i].open}
            IN /\ prof.rows[j].avg_green_return = ExpectedSideReturn(up)
               /\ prof.rows[j].avg_red_return = ExpectedSideReturn(m \ up)

\* the thresholds categorize_atr takes from the non-missing values
LowThreshold == Percentile(DropNaN(atr.values), LowPct)
HighThreshold == Percentile(DropNaN(atr.values), HighPct)

\* C12 as stated: 1 if value <= low threshold, otherwise 3 if >= high
\* threshold, otherwise 2, the <= test taking precedence (identical values
\* all get category 1).
C12_LowTestFirst ==
    atr.called =>
        \A i \in 1..Len(atr.values) :
            ~IsNaN(atr.values[i]) =>
                atr.categories[i] =
                    IF RLe(atr.values[i], LowThreshold) THEN Int2Rat(1)
                    ELSE IF RLe(HighThreshold, atr.values[i]) THEN Int2Rat(3)
                    ELSE Int2Rat(2)

\* C12 amended: 3 if value >= high threshold, otherwise 1 if <= low
\* threshold, otherwise 2, the >= test taking precedence; identical values
\* all get category 3, and a missing value has a missing category.
C12_HighTestWins ==
    atr.called =>
        /\ Len(atr.categories) = Len(atr.values)
        /\ \A i \in 1..Len(atr.values) :
              atr.categories[i] =
                  IF IsNaN(atr.values[i]) THEN NaN
                  ELSE IF RLe(HighThreshold, atr.values[i]) THEN Int2Rat(3)
                  ELSE IF RLe(atr.values[i], LowThreshold) THEN Int2Rat(1)
                  ELSE Int2Rat(2)
        /\ (\A i, j \in 1..Len(atr.values) :
                (~IsNaN(atr.values[i]) /\ ~IsNaN(atr.values[j])) =>
                    atr.values[i] = atr.values[j])
           => \A i \in 1..Len(atr.values) :
                  ~IsNaN(atr.values[i]) => atr.categories[i] = Int2Rat(3)

\* three identical volatility values, all put in category 3
C12_Witness ==
    /\ atr.called
    /\ Len(DropNaN(atr.values)) = 3
    /\ \A i \in 2..Len(atr.values) :
          atr.values[i] = atr.values[2] /\ atr.categories[i] = Int2Rat(3)
    /\ IsNaN(atr.categories[1])

\* true range of row i >= 2 of bars, from the prices
TrueRangeOf(i) ==
    Max(Max(Abs(bars[i].high - bars[i].low), Abs(bars[i].high - bars[i - 1].close)),
        Abs(bars[i].low - bars[i - 1].close))

RECURSIVE TrueRangeSum(_, _)
TrueRangeSum(from, to) ==
    IF from > to THEN 0 ELSE TrueRangeOf(from) + TrueRangeSum(from + 1, to)

\* C13: the volatility at row i is missing until the trailing window of
\* `period` rows ending at i holds only defined true ranges (the first row's
\* is missing), and from then on is the mean of exactly those values; a
\* partial window is never averaged.
C13_FullWindowOnly ==
    atr.called =>
        /\ Len(atr.values) = Len(bars)
        /\ \A i \in 1..Len(bars) :
              atr.values[i] =
                  IF i - atr_period + 1 >= 2
                  THEN Rat(TrueRangeSum(i - atr_period + 1, i), atr_period)
                  ELSE NaN

\* a window of two: rows 1 and 2 are missing, rows 3 and 4 are averages of
\* different true ranges
C13_Witness ==
    /\ atr.called
    /\ atr_period = 2
    /\ Len(bars) = 4
    /\ IsNaN(atr.values[2])
    /\ ~IsNaN(atr.values[3])
    /\ ~IsNaN(atr.values[4])
    /\ atr.values[3] # atr.values[4]
    /\ TrueRangeOf(2) # TrueRangeOf(3)

\* C14: the barcode reports total_count 10, 4, 4, 12, 5, 52, 5, 3 for
\* decennial, presidential, quarter, month, week of month, week of year, day
\* of week and session, whatever the date and the data.
C14_FixedTotals ==
    barcode # <<>> =>
        [j \in 1..Len(barcode) |-> barcode[j].total] = <<10, 4, 4, 12, 5, 52, 5, 3>>

\* the aggregator's key of each barcode scale, in the barcode's order
ScaleKinds ==
    <<"decennial", "presidential", "quarter", "month", "week_of_month", "week",
      "day", "session">>

\* the aggregator's group key of a one-row table dated t
AggregatorKey(kind, t) == RowKey(<<[date |-> t]>>, kind, t)

\* C15 as stated: every scale's current index is the aggregator's key formula
\* evaluated on the reference date itself, whatever dates the table holds.
C15_CurrentOfReferenceDate ==
    barcode # <<>> =>
        \A j \in 1..Len(barcode) :
            barcode[j].current = AggregatorKey(ScaleKinds[j], ref_date)

\* the loaded bar the barcode describes: the earliest of the bars nearest to
\* the reference date
NearestBar ==
    LET near == {i \in 1..Len(df) :
                    \A j \in 1..Len(df) :
                        Distance(df[i].date, ref_date) <= Distance(df[j].date, ref_date)}
    IN df[CHOOSE i \in near : \A j \in near : i <= j].date

\* C15 amended: the current index of decennial, presidential, quarter, month,
\* week of month and week of year is the aggregator's key formula evaluated
\* on the loaded bar nearest to the reference date (the earliest on a tie);
\* day of week is that bar's key capped at 5 and session is always 1.
C15_CurrentOfNearestBar ==
    barcode # <<>> =>
        /\ Len(barcode) = 8
        /\ \A j \in 1..6 : barcode[j].current = GroupKey(ScaleKinds[j], NearestBar)
        /\ barcode[7].current = Min(GroupKey("day", NearestBar), 5)
        /\ barcode[8].current = 1

\* a reference date with no bar of its own, halfway between two bars of
\* different months: the earlier bar is described
C15_Witness ==
    /\ barcode # <<>>
    /\ ref_date = Ts(2020, 1, 17, 0, 0)
    /\ \E i, j \in 1..Len(df) :
          /\ df[i].date = Ts(2020, 1, 2, 0, 0)
          /\ df[j].date = Ts(2020, 2, 1, 0, 0)
    /\ barcode[4].current = 1
    /\ barcode[5].current = 1

\* C16: no core operation (return annotation, ATR, categorisation, date
\* filtering, profile aggregation, pattern mining, barcode position) changes
\* the table the session holds: every step leaves every column and value of
\* it as it was.
C16_CallerTableUnchanged == [][df' = df]_vars

\* the barcode, which stores into the session's own table, has run on a
\* table of several bars
C16_Witness ==
    /\ last = "display_barcode_table"
    /\ Len(df) >= 2
    /\ \A i \in 1..Len(df) : DOMAIN df[i] = {"date", "open", "high", "low", "close"}

\* C17: a second call of prepare_profile_data with the same table, kind and
\* date range returns the summary table the first call returned.
C17_SecondCallSame == calls = 2 => prof = prev

\* a repeated call whose date range cut off the first bar and whose summary
\* has rows
C17_Witness ==
    /\ calls = 2
    /\ prof.status = "returned"
    /\ Len(prof.rows) >= 1
    /\ filter_params.given
    /\ ~IsNone(filter_params.start_date)
    /\ ~TsLe(filter_params.start_date, df[1].date)

\* minutes since midnight of the timestamp whose keys were computed
TimeOfDay == stamp.hour * 60 + stamp.minute

\* C18 as stated: for a bar classified by time of day the session key is 0
\* before 09:30, 1 from 09:30 through 16:00 and 2 after 16:00.
C18_RegularThroughSixteen ==
    (keys.called /\ keys.by_time) =>
        keys.session = (IF TimeOfDay < 570 THEN 0
                        ELSE IF TimeOfDay <= 960 THEN 1
                        ELSE 2)

\* C18 amended: for a bar classified by time of day the session key is 0
\* before 09:30, 1 from 09:30 up to but not including 16:00, and 2 at 16:00
\* or later.
C18_RegularBeforeSixteen ==
    (keys.called /\ keys.by_time) =>
        /\ TimeOfDay < 570 => keys.session = 0
        /\ (TimeOfDay >= 570 /\ TimeOfDay < 960) => keys.session = 1
        /\ TimeOfDay >= 960 => keys.session = 2

\* a bar stamped exactly 16:00, classified by time of day
C18_Witness ==
    /\ keys.called
    /\ keys.by_time
    /\ stamp.hour = 16
    /\ stamp.minute = 0
    /\ keys.session = 2

\* rows of the caller's table inside the date range
InRangeRows == {i \in 1..Len(df) : InWindow(i)}

Weekend(i) == DayOfWeek(df[i].date) >= 5

\* the share of green bars among the rows S of the caller's table
GreenShare(S) == Rat(Cardinality({i \in S : df[i].close > df[i].open}), Cardinality(S))

\* C19: Saturday and Sunday bars are dropped for the day kind only: with day
\* no summary row has key 6 or 7 and every summary row is computed from the
\* weekday bars of its key alone, while for each of the other seven kinds
\* every row in the date range falls into exactly one summary row, which
\* counts it.
C19_WeekendsDroppedForDayOnly ==
    prof.status = "returned" =>
        IF profile_type = "day"
        THEN \A j \in 1..Len(prof.rows) :
                LET S == {i \in InRangeRows :
                             /\ ~Weekend(i)
                             /\ DayOfWeek(df[i].date) + 1 = prof.rows[j].key}
                IN /\ prof.rows[j].key \notin {6, 7}
                   /\ S # {}
                   /\ prof.rows[j].green_probability = GreenShare(S)
        ELSE \A i \in InRangeRows :
                LET hits == {j \in 1..Len(prof.rows) : prof.rows[j].key = KeyOf(i)}
                IN /\ Cardinality(hits) = 1
                   /\ \A j \in hits :
                         prof.rows[j].green_probability =
                             GreenShare({k \in InRangeRows : KeyOf(k) = KeyOf(i)})

\* a day profile over a range that holds a weekend bar and a weekday bar
C19_Witness ==
    /\ prof.status = "returned"
    /\ profile_type = "day"
    /\ \E i, k \in InRangeRows : Weekend(i) /\ ~Weekend(k)
    /\ Len(prof.rows) >= 1

\* a month profile whose February group counts a Saturday bar
C19_WitnessOther ==
    /\ prof.status = "returned"
    /\ profile_type = "month"
    /\ \E i, k \in InRangeRows :
          /\ Weekend(i) /\ ~Weekend(k)
          /\ df[i].date.month = df[k].date.month
          /\ (df[i].close > df[i].open) # (df[k].close > df[k].open)

\* the bars of the caller's table inside the selected window
WindowBars == Window_Of(df, filter_params)

\* returns, volatility and categories computed from the bars d alone
DerivedFrom(d) ==
    LET atr_values == calculate_atr(d, ATRPeriod)
        cats == categorize_atr(atr_values)
    IN [i \in 1..Len(d) |->
          [date |-> d[i].date, return |-> PctReturn(d, i),
           is_green |-> d[i].close > d[i].open,
           atr |-> atr_values[i], atr_category |-> cats[i]]]

\* C20 as stated: on every path the derived values of the bars inside the
\* window are those computed from the bars of the window alone.
C20_WindowFirstOnEveryPath ==
    derived.path # "" =>
        derived.rows = Project(DerivedFrom(WindowBars), PathColumns(derived.path))

\* C20 amended: on the two pattern paths the derived values are computed
\* from the bars of the window alone; on the profile path they are computed
\* from the whole table and the window is applied afterwards, so they are
\* the whole table's values of the bars inside the window.
C20_WindowFirstOnPatternPathsOnly ==
    /\ derived.path \in {"pattern_tab", "expander"} =>
          derived.rows = Project(DerivedFrom(WindowBars), PathColumns(derived.path))
    /\ derived.path = "profile" =>
          derived.rows = Project(Window_Of(DerivedFrom(df), filter_params),
                                 PathColumns("profile"))

\* the profile path on a window that starts after the table's first bar: the
\* window's first bar has a return, and a bar has a volatility before the
\* window holds a full rolling period
C20_Witness ==
    /\ derived.path = "profile"
    /\ Len(derived.rows) = ATRPeriod + 1
    /\ ~IsNaN(derived.rows[1].return)
    /\ ~IsNaN(derived.rows[ATRPeriod].atr)
    /\ derived.rows[ATRPeriod].atr_category \in {Int2Rat(1), Int2Rat(2), Int2Rat(3)}

\* C27: every barcode scale's current index satisfies 1 <= current <= total,
\* so the position marker (current - 1) / total * 100 lies in [0, 100).
C27_CurrentWithinTotal ==
    barcode # <<>> =>
        \A j \in 1..Len(barcode) :
            1 <= barcode[j].current /\ barcode[j].current <= barcode[j].total

\* C28: in the session profile, when some bar of the aggregated series has a
\* non-midnight time of day every bar's group key is given by its own time of
\* day; all bars take key 1 only when no bar has a time-of-day component.
C28_SessionByOwnTime ==
    (prof.status = "returned" /\ profile_type = "session") =>
        {prof.rows[j].key : j \in 1..Len(prof.rows)} =
            (IF \E i \in InRangeRows : df[i].date.hour # 0 \/ df[i].date.minute # 0
             THEN {determine_session(df[i].date) : i \in InRangeRows}
             ELSE {1 : i \in InRangeRows})

\* the calendar day of a timestamp lies between the days of two timestamps
DayBetween(t, start_date, end_date) ==
    Ordinal(start_date) <= Ordinal(t) /\ Ordinal(t) <= Ordinal(end_date)

\* C29: the date-range filter built from the start and end dates of the UI
\* (both within the calendar days the table spans) keeps every bar whose
\* calendar date lies between the two dates inclusive, bars stamped later
\* than 00:00 on the end date included.
C29_EndDayKept ==
    (/\ derived.path # ""
     /\ ~IsNone(filter_params.start_date)
     /\ ~IsNone(filter_params.end_date)
     /\ Ordinal(df[1].date) <= Ordinal(filter_params.start_date)
     /\ Ordinal(filter_params.end_date) <= Ordinal(df[Len(df)].date)) =>
        {derived.rows[j].date : j \in 1..Len(derived.rows)} =
            {df[i].date : i \in {k \in 1..Len(df) :
                DayBetween(df[k].date, filter_params.start_date,
                           filter_params.end_date)}}

\* the timeframes_loaded list of the session
Loaded == SeqRange(session_state.timeframes_loaded)

\* C21: monthly data comes first: whenever timeframes_loaded holds a
\* timeframe other than "M" it holds "M" too, and every load of a non-monthly
\* timeframe (individual or bulk) starts with "M" already loaded.
C21_MonthlyFirst ==
    /\ (Loaded \ {"M"}) # {} => "M" \in Loaded
    /\ (event.attempts \ {"M"}) # {} => event.monthly_before

\* an individual load and a bulk load have each been attempted
C21_Witness ==
    /\ event.kind = "rerun"
    /\ event.attempts = {"D"}
    /\ "W" \in Loaded
    /\ session_state.load_requested

\* C22: a button's on_click callback runs only when no earlier run of it is
\* still unreset, and while a run is unreset the button's state is "loading".
C22_NoSecondInvocationBeforeReset ==
    /\ event.invoked => ~event.was_unreset
    /\ \A k \in event.unreset : session_state.button_state[k] = "loading"

\* the callback of an individual button has run, its load failed and its
\* button was left in state "loading"
C22_Witness ==
    /\ event.invoked
    /\ event.key = "load_W_btn"
    /\ "W" \notin Loaded
    /\ session_state.button_state["load_W_btn"] = "loading"

\* C23: load_next_timeframe returns True exactly when the call loaded a
\* timeframe into data_dict and timeframes_loaded, and False exactly when all
\* timeframes are done, loading_complete then being True.
C23_ReturnTellsLoaded ==
    event.call.made =>
        /\ event.call.ret <=> event.call.loaded
        /\ ~event.call.ret <=>
              (/\ event.call.index >= Len(timeframe_files)
               /\ session_state.loading_complete)

\* the order in which the bulk loader is to visit the timeframes
VisitOrder ==
    <<"M", "W", "D", "4h", "1h", "30min", "15min", "10min", "5min", "1min">>

\* a call of load_next_timeframe visits the timeframe of its index, skips
\* "M", and the index stays within 0..10
BulkVisitsInOrder ==
    /\ session_state.next_timeframe_to_load <= 10
    /\ (event.call.made /\ event.call.index < 10) =>
          /\ event.call.visited = VisitOrder[event.call.index + 1]
          /\ event.call.visited = "M" => ~event.call.loaded
    /\ (event.call.made /\ event.call.index >= 10) => session_state.loading_complete

\* a step moves the index by at most one, forward, once per call, and
\* changes nothing that is loaded once loading_complete is set
BulkStep ==
    /\ session_state'.next_timeframe_to_load >= session_state.next_timeframe_to_load
    /\ session_state'.next_timeframe_to_load <=
          session_state.next_timeframe_to_load + 1
    /\ (session_state'.next_timeframe_to_load # session_state.next_timeframe_to_load)
          => event'.call.made
    /\ session_state.loading_complete =>
          /\ session_state'.loading_complete
          /\ session_state'.timeframes_loaded = session_state.timeframes_loaded
          /\ session_state'.data_dict = session_state.data_dict
          /\ ~event'.call.made

C25_LoadedOnce ==
    \A i, j \in 1..Len(session_state.timeframes_loaded) :
        i # j => session_state.timeframes_loaded[i] # session_state.timeframes_loaded[j]

\* C26: whenever show_bulk_loading_progress is rendered the progress fraction
\* (len(timeframes_loaded) - 1) / (len(timeframe_files) - 1) is within [0, 1].
C26_ProgressFraction ==
    event.progress.shown =>
        /\ 0 <= event.progress.loaded_tfs
        /\ event.progress.loaded_tfs <= event.progress.total_tfs

====
